---- MODULE Spec2Model ----
(***************************************************************************)
(* Imenik scraper: the batched, cached name-scraping pipeline              *)
(* (scrapeByNames / scrapeByName / scrapePage) and the text normalizer.    *)
(*                                                                         *)
(* Strings are sequences of one-character strings.  The two Croatian       *)
(* letters of the directional words that are not ASCII are written "z~"    *)
(* (z with caron) and "c~" (c with caron), upper case "Z~" and "C~".       *)
(***************************************************************************)
EXTENDS Integers, Sequences, FiniteSets, TLC

(***************************************************************************)
(* Bounds of the model.                                                    *)
(***************************************************************************)
\* largest number of search terms in the input list
MaxNames == 3
\* CONFIG.BATCH_SIZE, the configured batch size, scaled down
BATCH_SIZE == 2

\* the estimate of totalPages before pagination is discovered
DefaultTotalPages == 10

(***************************************************************************)
(* Text normalizer.                                                        *)
(***************************************************************************)
Lowers == <<"a","b","c","d","e","f","g","h","i","j","k","l","m","n","o","p",
            "q","r","s","t","u","v","w","x","y","z","z~","c~">>
Uppers == <<"A","B","C","D","E","F","G","H","I","J","K","L","M","N","O","P",
            "Q","R","S","T","U","V","W","X","Y","Z","Z~","C~">>

\* String.prototype.toUpperCase on one character
UpperChar(c) ==
    IF \E i \in 1..Len(Lowers) : Lowers[i] = c
    THEN Uppers[CHOOSE i \in 1..Len(Lowers) : Lowers[i] = c]
    ELSE c

\* String.prototype.toLowerCase on one character
LowerChar(c) ==
    IF \E i \in 1..Len(Uppers) : Uppers[i] = c
    THEN Lowers[CHOOSE i \in 1..Len(Uppers) : Uppers[i] = c]
    ELSE c

toUpperCase(s) == [i \in 1..Len(s) |-> UpperChar(s[i])]
toLowerCase(s) == [i \in 1..Len(s) |-> LowerChar(s[i])]

\* characters matched by \s, and removed by String.prototype.trim
WhiteSpace == {" ", "\t"}

\* s.split(" "): the tokens between single spaces, empty tokens kept
RECURSIVE SplitFrom(_, _, _)
SplitFrom(s, i, cur) ==
    IF i > Len(s) THEN <<cur>>
    ELSE IF s[i] = " " THEN <<cur>> \o SplitFrom(s, i + 1, <<>>)
    ELSE SplitFrom(s, i + 1, Append(cur, s[i]))

split(s) == SplitFrom(s, 1, <<>>)

\* words.join(" ")
RECURSIVE join(_)
join(words) ==
    IF Len(words) = 0 THEN <<>>
    ELSE IF Len(words) = 1 THEN words[1]
    ELSE words[1] \o <<" ">> \o join(Tail(words))

\* word.charAt(0).toUpperCase() + word.slice(1).toLowerCase()
Capitalize(word) ==
    IF Len(word) = 0 THEN <<>>
    ELSE <<UpperChar(word[1])>> \o toLowerCase(Tail(word))

\* mutant: the city is capitalized as one word
parseCity_oneWord(city) == Capitalize(city)

parseFullName(fullName) ==
    LET words == split(fullName)
    IN  join([i \in 1..Len(words) |->
                IF Len(words[i]) = 0 THEN <<>> ELSE Capitalize(words[i])])

parseCity(city) == parseFullName(city)

\* mutant: every word is capitalized, hyphen or not, preposition or not
parseStreetWord_plain(words, index) ==
    IF Len(words[index]) = 0 THEN <<>> ELSE Capitalize(words[index])

lowerCaseWords ==
    { <<"i">>, <<"u">>, <<"n","a">>, <<"k","o","d">>, <<"d","o">>,
      <<"o","d">>, <<"z","a">>, <<"i","z">>, <<"s">>, <<"s","a">>,
      <<"k">>, <<"k","a">> }

directionalWords ==
    { <<"s","j","e","v","e","r">>, <<"j","u","g">>, <<"i","s","t","o","k">>,
      <<"z","a","p","a","d">>, <<"s","j","e","v","e","r","n","i">>,
      <<"j","u","z~","n","i">>, <<"i","s","t","o","c~","n","i">>,
      <<"z","a","p","a","d","n","i">> }

endsWithHyphen(word) == Len(word) > 0 /\ word[Len(word)] = "-"

parseStreetWord(words, index) ==
    LET word == words[index]
    IN  IF Len(word) = 0 THEN <<>>
        ELSE IF index = 1 \/ (index > 1 /\ endsWithHyphen(words[index - 1]))
             THEN Capitalize(word)
        ELSE IF toLowerCase(word) \in lowerCaseWords THEN toLowerCase(word)
        ELSE IF toLowerCase(word) \in directionalWords THEN toLowerCase(word)
        ELSE Capitalize(word)

parseStreet(street) ==
    IF Len(street) = 0 THEN <<>>
    ELSE LET words == split(street)
         IN  join([i \in 1..Len(words) |-> parseStreetWord(words, i)])

\* number.replace(/\s+/g, "")
cleanPhoneNumber(number) == SelectSeq(number, LAMBDA c : c \notin WhiteSpace)

\* cleanedNumber.startsWith("09")
startsWith09(s) == Len(s) >= 2 /\ s[1] = "0" /\ s[2] = "9"

(***************************************************************************)
(* The directory website, as the browser collaborator shows it.  A result  *)
(* page is a sequence of result containers; a container holds the texts of *)
(* the address <div>s (none when the address element is missing) and the   *)
(* optional telephone and name elements (<<>> when missing, <<text>> when  *)
(* present).  The first result page of a term also carries the hrefs of    *)
(* its pagination links, in document order.                                *)
(***************************************************************************)
TermList == <<"Ana", "Ivan", "Marko", "Petra">>

Terms == { TermList[i] : i \in 1..MaxNames }

Container(street, cityLine, tel, name) ==
    [divs |-> <<street, cityLine>>, tel |-> tel, name |-> name]

NoAddress(tel, name) == [divs |-> <<>>, tel |-> tel, name |-> name]

AnaFirst ==
    << Container(<<"i","l","i","c","a"," ","1">>, <<"1","0"," ","z","a","g","r","e","b">>,
                 << <<" ","0","9","1"," ","2","\t">> >>, << <<"A","N","A"," ","a","n","i","c">> >>),
       Container(<<"t","r","g"," ","2">>, <<"2","1"," ","s","p","l","i","t">>,
                 << <<"0","1"," ","9","2">> >>, << <<"a","n","a"," ","b">> >>) >>

AnaSecond ==
    << Container(<<"p","u","t"," ","N","A"," ","j","u","g">>, <<"5","1"," ","r","i","j","e","k","a">>,
                 << <<"0","9","8","3">> >>, << <<"a","n","a"," "," ","c">> >>) >>

IvanFirst ==
    << NoAddress(<<>>, << <<"i","v","a","n"," ","d">> >>),
       Container(<<"d","o","l"," ","3">>, <<"3","1"," ","o","s","i","j","e","k">>,
                 << <<"0","3","1"," ","0","9">> >>, << <<"i","v","a","n"," ","e">> >>) >>

MarkoFirst ==
    << Container(<<"v","r","t"," ","4">>, <<"1","0"," ","z","a","g","r","e","b">>,
                 << <<"0","9","5"," ","1">> >>, << <<"m","a","r","k","o"," ","f">> >>) >>

MarkoSecond ==
    << NoAddress(<<>>, <<>>),
       Container(<<"m","o","s","t"," ","6">>, <<"1","0"," ","z","a","g","r","e","b">>,
                 << <<"0","9","9"," ","6">> >>, << <<"m","a","r","k","o"," ","i">> >>) >>

MarkoThird ==
    << NoAddress(<< <<"0","9","7","7">> >>, << <<"M","a","r","k","o"," ","G">> >>) >>

\* a page of the site that no pagination link of the first page leads to
MarkoFourth ==
    << NoAddress(<< <<"0","9","2","2">> >>, << <<"m","a","r","k","o"," ","j">> >>) >>

PetraFirst ==
    << Container(<<"g","a","j"," ","5">>, <<"2","3"," ","z","a","d","a","r">>,
                 << <<"0","9"," ","9","9">> >>, << <<"p","e","t","r","a"," ","h">> >>) >>

\* what the site serves for a search term: its first result page, the hrefs
\* of the pagination links on it, the page behind each href, and the hrefs
\* of the pagination links on each of those pages
Directory(name) ==
    CASE name = "Ana" ->
           [first |-> AnaFirst, hrefs |-> <<"page2", "page2">>,
            page |-> [h \in {"page2"} |-> AnaSecond],
            later |-> [h \in {"page2"} |-> <<"page2">>]]
      [] name = "Ivan" ->
           [first |-> IvanFirst, hrefs |-> <<>>,
            page |-> [h \in {} |-> <<>>],
            later |-> [h \in {} |-> <<>>]]
      [] name = "Marko" ->
           [first |-> MarkoFirst, hrefs |-> <<"page2", "page3", "page2">>,
            page |-> [h \in {"page2", "page3", "page4"} |->
                        IF h = "page2" THEN MarkoSecond
                        ELSE IF h = "page3" THEN MarkoThird ELSE MarkoFourth],
            later |-> [h \in {"page2", "page3", "page4"} |->
                        IF h = "page3" THEN <<"page2", "page4">>
                        ELSE <<"page2", "page3">>]]
      [] OTHER ->
           [first |-> PetraFirst, hrefs |-> <<>>,
            page |-> [h \in {} |-> <<>>],
            later |-> [h \in {} |-> <<>>]]

(***************************************************************************)
(* Page extractor.                                                         *)
(***************************************************************************)
RECURSIVE trimStart(_)
trimStart(s) ==
    IF Len(s) > 0 /\ s[1] \in WhiteSpace THEN trimStart(Tail(s)) ELSE s

RECURSIVE trimEnd(_)
trimEnd(s) ==
    IF Len(s) > 0 /\ s[Len(s)] \in WhiteSpace
    THEN trimEnd(SubSeq(s, 1, Len(s) - 1)) ELSE s

trim(s) == trimEnd(trimStart(s))

\* elem?.textContent?.trim() || ""
textOf(elem) == IF elem = <<>> THEN <<>> ELSE trim(elem[1])

\* divs[k]?.textContent?.trim() || ""
divText(divs, k) == IF k <= Len(divs) THEN trim(divs[k]) ELSE <<>>

\* the callback of page.$$eval on one result container
extractContainer(container) ==
    LET cityLine == divText(container.divs, 2)
        parts    == split(cityLine)
    IN  [telephoneNumber |-> textOf(container.tel),
         street          |-> divText(container.divs, 1),
         city            |-> join(Tail(parts)),
         fullName        |-> textOf(container.name)]

\* mutant: the entry keeps the cleaned telephone number
processEntry_cleaned(entry) ==
    [telephoneNumber |-> cleanPhoneNumber(entry.telephoneNumber),
     street          |-> parseStreet(entry.street),
     city            |-> parseCity(entry.city),
     fullName        |-> parseFullName(entry.fullName)]

\* the map callback of scrapePage: name, city and street are normalized,
\* the telephone number is kept as extracted
processEntry(entry) ==
    [telephoneNumber |-> entry.telephoneNumber,
     street          |-> parseStreet(entry.street),
     city            |-> parseCity(entry.city),
     fullName        |-> parseFullName(entry.fullName)]

\* mutant: the gate tests the prefix "0"
keepEntry_zero(entry) ==
    LET n == cleanPhoneNumber(entry.telephoneNumber)
    IN  Len(n) >= 1 /\ n[1] = "0"

\* the validity gate of scrapePage
keepEntry(entry) == startsWith09(cleanPhoneNumber(entry.telephoneNumber))

scrapePage(containers) ==
    LET rawEntries == [i \in 1..Len(containers) |-> extractContainer(containers[i])]
        processed  == [i \in 1..Len(rawEntries) |-> processEntry(rawEntries[i])]
    IN  SelectSeq(processed, keepEntry)

(***************************************************************************)
(* Cache.  The cache file is written by earlier runs of this program, so   *)
(* a key maps to a non-empty list of entries that passed scrapePage.       *)
(***************************************************************************)
CachedEntry(tel, name) ==
    [telephoneNumber |-> tel, street |-> <<>>, city |-> <<>>, fullName |-> name]

\* what an earlier run stored for the term (the directory has changed since)
OldResult(name) ==
    CASE name = "Ana" ->
           << CachedEntry(<<"0","9","0"," ","1">>, <<"A","n","a"," ","S">>) >>
      [] name = "Ivan" ->
           << CachedEntry(<<"0","9","0","2">>, <<"I","v","a","n"," ","S">>),
              CachedEntry(<<"0","9","0","3">>, <<"I","v","a","n"," ","T">>) >>
      [] name = "Marko" ->
           << CachedEntry(<<"0","9","0","4">>, <<"M","a","r","k","o"," ","S">>) >>
      [] OTHER ->
           << CachedEntry(<<"0","9","0","5">>, <<"P","e","t","r","a"," ","S">>) >>

\* getEntriesFromCache(name, cache): <<entries>> when the term is a key of
\* the cache, <<>> (a falsy value) when it is not
getEntriesFromCache(name, c) ==
    IF name \in DOMAIN c THEN <<c[name]>> ELSE <<>>

(***************************************************************************)
(* Helpers on sequences.                                                   *)
(***************************************************************************)
Range(seq) == { seq[i] : i \in 1..Len(seq) }

\* batchResults.flat()
RECURSIVE flat(_)
flat(lists) ==
    IF Len(lists) = 0 THEN <<>> ELSE lists[1] \o flat(Tail(lists))

\* Array.from(new Set(hrefs)): first occurrences, in order
RECURSIVE uniqueInOrder(_)
uniqueInOrder(seq) ==
    IF Len(seq) = 0 THEN <<>>
    ELSE LET front == uniqueInOrder(SubSeq(seq, 1, Len(seq) - 1))
             last  == seq[Len(seq)]
         IN  IF last \in Range(front) THEN front ELSE Append(front, last)

Min(a, b) == IF a <= b THEN a ELSE b

\* mutant: the slice runs one element too far
RECURSIVE splitFromIndex_overlap(_, _, _)
splitFromIndex_overlap(array, batchSize, i) ==
    IF i < Len(array)
    THEN <<SubSeq(array, i + 1, Min(i + batchSize + 1, Len(array)))>>
         \o splitFromIndex_overlap(array, batchSize, i + batchSize)
    ELSE <<>>

\* for (let i = 0; i < array.length; i += batchSize) batches.push(array.slice(i, i + batchSize))
RECURSIVE splitFromIndex(_, _, _)
splitFromIndex(array, batchSize, i) ==
    IF i < Len(array)
    THEN <<SubSeq(array, i + 1, Min(i + batchSize, Len(array)))>>
         \o splitFromIndex(array, batchSize, i + batchSize)
    ELSE <<>>

splitIntoBatches(array, batchSize) == splitFromIndex(array, batchSize, 0)

(***************************************************************************)
(* State.                                                                  *)
(***************************************************************************)
VARIABLES
    names,          \* argument of scrapeByNames: the search terms, distinct
    disableCache,   \* argument of scrapeByNames: the cache-bypass flag
    cache,          \* the process-wide cache map: term -> entries
    nameStatus,     \* the process-wide progress map: term -> record
    pc,             \* position of scrapeByNames
    nameBatches,    \* local of scrapeByNames
    batchIndex,     \* local of scrapeByNames: batches resolved so far
    allEntries,     \* local of scrapeByNames: the output accumulator
    sess,           \* per term: the task of the batch (guard + scrapeByName)
    open,           \* per term: pages opened for it and not yet closed
    savedFile,      \* content of imenik-results.json
    saveLog,        \* history: the lists handed to saveResults in this run
    launches,       \* history: calls of scrapeByName per term in this run
    cacheAtStart,   \* history: the cache when this run started
    rerun,          \* TRUE in the second of two successive runs
    firstRun,       \* history: outcome of the first of two successive runs
    overtaken,      \* history: a task of this run has settled while a term
                    \* before it in its batch had not
    call            \* a direct call of one function: its argument and result

vars == << names, disableCache, cache, nameStatus, pc, nameBatches, batchIndex,
           allEntries, sess, open, savedFile, saveLog, launches, cacheAtStart,
           rerun, firstRun, overtaken, call >>

EmptyMap == [t \in {} |-> <<>>]

\* a task not yet started; the field calls is history: the pages scrapePage
\* has been called on, "first" for the first result page and the href for a
\* pagination target, kept while no operation of the session has thrown
IdleTask ==
    [pc |-> "idle", acc |-> <<>>, links |-> <<>>, i |-> 0, err |-> FALSE,
     value |-> <<>>, calls |-> <<>>]

\* no function is called directly while the pipeline runs
NoCall == [fn |-> "none", arg |-> <<>>, result |-> <<>>, done |-> FALSE]

NoFirstRun ==
    [output |-> <<>>, value |-> [t \in Terms |-> <<>>],
     launched |-> {}, threw |-> {}, cached |-> {}]

\* the key sets of the cache file the run may find: any set of terms when
\* the cache is consulted; none or all of them when it is bypassed
CachedAtInit(dc) == IF dc THEN {{}, Terms} ELSE SUBSET Terms

\* the second of two successive runs is modelled for lists of this length
MaxRerunNames == 2

Init ==
    /\ names \in { SubSeq(TermList, 1, n) : n \in 0..MaxNames }
    /\ disableCache \in BOOLEAN
    /\ cache \in { [t \in K |-> OldResult(t)] : K \in CachedAtInit(disableCache) }
    /\ nameStatus = EmptyMap
    /\ pc = "start"
    /\ nameBatches = <<>>
    /\ batchIndex = 0
    /\ allEntries = <<>>
    /\ sess = [t \in Terms |-> IdleTask]
    /\ open = [t \in Terms |-> 0]
    /\ savedFile = <<>>
    /\ saveLog = <<>>
    /\ launches = [t \in Terms |-> 0]
    /\ cacheAtStart = cache
    /\ rerun = FALSE
    /\ firstRun = NoFirstRun
    /\ overtaken = FALSE
    /\ call = NoCall

(***************************************************************************)
(* scrapeByNames: set-up.                                                  *)
(***************************************************************************)
InitialStatus ==
    [currentPage |-> 0, totalPages |-> DefaultTotalPages, status |-> "pending"]

\* names.forEach((name) => { nameStatus[name] = {...pending} })
initStatus(ns, nms) ==
    [t \in DOMAIN ns \cup Range(nms) |->
        IF t \in Range(nms) THEN InitialStatus ELSE ns[t]]

\* mutant: the filter consults the cache without looking at the flag
usesCache_ignoreFlag(name, dc, c) == getEntriesFromCache(name, c) /= <<>>

\* the test of the filter callback: the term is resolved from the cache
usesCache(name, dc, c) == ~dc /\ getEntriesFromCache(name, c) /= <<>>

\* mutant: a cached term is marked completed with its page counter left at 0
markCached_statusOnly(ns, nms, dc, c) ==
    [t \in DOMAIN ns |->
        IF t \in Range(nms) /\ usesCache(t, dc, c)
        THEN [ns[t] EXCEPT !.status = "completed"]
        ELSE ns[t]]

\* the status writes of the filter callback
markCached(ns, nms, dc, c) ==
    [t \in DOMAIN ns |->
        IF t \in Range(nms) /\ usesCache(t, dc, c)
        THEN [ns[t] EXCEPT !.status = "completed",
                           !.currentPage = ns[t].totalPages]
        ELSE ns[t]]

\* mutant: the filter keeps the cached names and drops the others
namesToProcess_inverted(nms, dc, c) ==
    SelectSeq(nms, LAMBDA name : usesCache(name, dc, c))

\* mutant: the filter lets every name through
namesToProcess_unfiltered(nms, dc, c) == nms

namesToProcess(nms, dc, c) ==
    SelectSeq(nms, LAMBDA name : ~usesCache(name, dc, c))

\* "Add entries from cache first"
cachedEntries(nms, dc, c) ==
    IF dc THEN <<>>
    ELSE flat([k \in 1..Len(nms) |->
                 IF getEntriesFromCache(nms[k], c) /= <<>>
                 THEN getEntriesFromCache(nms[k], c)[1] ELSE <<>>])

Start ==
    /\ pc = "start"
    /\ nameStatus' = markCached(initStatus(nameStatus, names), names,
                                disableCache, cache)
    /\ nameBatches' = splitIntoBatches(namesToProcess(names, disableCache, cache),
                                       BATCH_SIZE)
    /\ allEntries' = cachedEntries(names, disableCache, cache)
    /\ batchIndex' = 0
    /\ pc' = "loop"
    /\ sess' = [t \in Terms |-> IdleTask]
    /\ saveLog' = <<>>
    /\ launches' = [t \in Terms |-> 0]
    /\ cacheAtStart' = cache
    /\ overtaken' = FALSE
    /\ UNCHANGED << names, disableCache, cache, open, savedFile, rerun, firstRun,
                    call >>

(***************************************************************************)
(* scrapeByNames: the batch loop.  batch.map(...) calls the guarded task   *)
(* of every term of the batch at once; each runs scrapeByName up to its    *)
(* first suspension point, the browser.newPage() of createNewPage.         *)
(***************************************************************************)
\* scrapeByName, before the first await
enterStatus(ns, name) ==
    LET cur == IF name \in DOMAIN ns THEN ns[name] ELSE InitialStatus
    IN  [cur EXCEPT !.status = "processing", !.currentPage = 1]

LaunchBatch ==
    /\ pc = "loop"
    /\ batchIndex < Len(nameBatches)
    /\ LET batch == nameBatches[batchIndex + 1]
       IN  /\ nameStatus' =
                [t \in DOMAIN nameStatus \cup Range(batch) |->
                    IF t \in Range(batch) THEN enterStatus(nameStatus, t)
                    ELSE nameStatus[t]]
           /\ sess' = [t \in Terms |->
                        IF t \in Range(batch)
                        THEN [IdleTask EXCEPT !.pc = "newPage"] ELSE sess[t]]
           /\ launches' = [t \in Terms |->
                            IF t \in Range(batch) THEN launches[t] + 1
                            ELSE launches[t]]
    /\ pc' = "await"
    /\ UNCHANGED << names, disableCache, cache, nameBatches, batchIndex,
                    allEntries, open, savedFile, saveLog, cacheAtStart, rerun,
                    firstRun, overtaken, call >>

\* mutant: the batch is taken as resolved when its first task is
promiseAll_first(batch, tasks) ==
    IF \E k \in 1..Len(batch) : tasks[batch[k]].pc = "rejected" THEN "rejected"
    ELSE IF \E k \in 1..Len(batch) : tasks[batch[k]].pc = "fulfilled"
         THEN "fulfilled"
    ELSE "pending"

\* Promise.all over the guarded tasks of the batch
promiseAll(batch, tasks) ==
    IF \E k \in 1..Len(batch) : tasks[batch[k]].pc = "rejected" THEN "rejected"
    ELSE IF \A k \in 1..Len(batch) : tasks[batch[k]].pc = "fulfilled"
         THEN "fulfilled"
    ELSE "pending"

\* mutant: the batch's results are put in front of the list
mergeBatch_front(all, batchResults) == flat(batchResults) \o all

\* mutant: the merge keeps the batch's results only
mergeBatch_onlyBatch(all, batchResults) == flat(batchResults)

\* allEntries = [...allEntries, ...batchResults.flat()]
mergeBatch(all, batchResults) == all \o flat(batchResults)

\* mutant: the list is saved before the batch is merged into it
checkpointArg_stale(before, merged) == before

\* the list handed to saveResults after the merge
checkpointArg(before, merged) == merged

\* saveResults(entries, minify): the output file is rewritten in full
saveResults(file, entries) == entries

BatchSettle ==
    /\ pc = "await"
    /\ LET batch   == nameBatches[batchIndex + 1]
           outcome == promiseAll(batch, sess)
           results == [k \in 1..Len(batch) |-> sess[batch[k]].value]
           merged  == mergeBatch(allEntries, results)
           saved   == checkpointArg(allEntries, merged)
       IN  /\ outcome /= "pending"
           /\ IF outcome = "rejected"
              THEN /\ pc' = "threw"
                   /\ UNCHANGED << allEntries, savedFile, saveLog, batchIndex >>
              ELSE /\ pc' = "loop"
                   /\ allEntries' = merged
                   /\ savedFile' = saveResults(savedFile, saved)
                   /\ saveLog' = Append(saveLog, saved)
                   /\ batchIndex' = batchIndex + 1
    /\ UNCHANGED << names, disableCache, cache, nameStatus, nameBatches, sess,
                    open, launches, cacheAtStart, rerun, firstRun, overtaken,
                    call >>

\* return allEntries
Return ==
    /\ pc = "loop"
    /\ batchIndex >= Len(nameBatches)
    /\ pc' = "done"
    /\ UNCHANGED << names, disableCache, cache, nameStatus, nameBatches,
                    batchIndex, allEntries, sess, open, savedFile, saveLog,
                    launches, cacheAtStart, rerun, firstRun, overtaken, call >>

(***************************************************************************)
(* scrapeByName.  A task's pc names the operation it is suspended on:      *)
(*   newPage   browser.newPage() in createNewPage                          *)
(*   setup     setUserAgent / setViewport / setRequestInterception         *)
(*   search    goto, waitForSelector, $, focus, type, press,               *)
(*             waitForNavigation                                           *)
(*   first     scrapePage on the first result page                         *)
(*   links     $$eval of the pagination links                              *)
(*   goto      page.goto of pagination target i                            *)
(*   scrape    scrapePage on pagination target i                           *)
(*   close     page.close() in the finally block                           *)
(*   returned  scrapeByName fulfilled, the guard not yet resumed           *)
(*   thrown    scrapeByName rejected, the guard not yet resumed            *)
(*   fulfilled / rejected   the guarded task has settled                   *)
(* err records that an error was thrown in the session.  Every awaited     *)
(* browser operation either returns or throws.                             *)
(***************************************************************************)
GuardVarsUnchanged ==
    UNCHANGED << names, disableCache, pc, nameBatches, batchIndex, allEntries,
                 savedFile, saveLog, launches, cacheAtStart, rerun, firstRun,
                 call >>

SessionVarsUnchanged == GuardVarsUnchanged /\ UNCHANGED overtaken

\* browser.newPage() returns a page
NewPageOk(t) ==
    /\ sess[t].pc = "newPage"
    /\ sess' = [sess EXCEPT ![t].pc = "setup"]
    /\ open' = [open EXCEPT ![t] = @ + 1]
    /\ UNCHANGED << cache, nameStatus >>
    /\ SessionVarsUnchanged

\* browser.newPage() throws: createNewPage is called outside the try block
NewPageFail(t) ==
    /\ sess[t].pc = "newPage"
    /\ sess' = [sess EXCEPT ![t].pc = "thrown", ![t].err = TRUE,
                            ![t].calls = <<>>]
    /\ UNCHANGED << cache, nameStatus, open >>
    /\ SessionVarsUnchanged

\* the page set-up calls of createNewPage return
SetupOk(t) ==
    /\ sess[t].pc = "setup"
    /\ sess' = [sess EXCEPT ![t].pc = "search"]
    /\ UNCHANGED << cache, nameStatus, open >>
    /\ SessionVarsUnchanged

\* a page set-up call throws: the error leaves createNewPage and
\* scrapeByName, whose try block has not been entered
SetupFail(t) ==
    /\ sess[t].pc = "setup"
    /\ sess' = [sess EXCEPT ![t].pc = "thrown", ![t].err = TRUE,
                            ![t].calls = <<>>]
    /\ UNCHANGED << cache, nameStatus, open >>
    /\ SessionVarsUnchanged

\* navigation to the site and submission of the search term return
SearchOk(t) ==
    /\ sess[t].pc = "search"
    /\ sess' = [sess EXCEPT ![t].pc = "first", ![t].calls = <<"first">>]
    /\ UNCHANGED << cache, nameStatus, open >>
    /\ SessionVarsUnchanged

\* await scrapePage(page), for every page the site serves for every term:
\* the result on the first result page and on the page behind each href
scrapedPages ==
    [t \in Terms |->
        [first |-> scrapePage(Directory(t).first),
         page  |-> [h \in DOMAIN Directory(t).page |->
                      scrapePage(Directory(t).page[h])]]]

\* allEntries.push(...firstEntries)
FirstOk(t) ==
    /\ sess[t].pc = "first"
    /\ sess' = [sess EXCEPT ![t].pc = "links",
                            ![t].acc = @ \o scrapedPages[t].first]
    /\ UNCHANGED << cache, nameStatus, open >>
    /\ SessionVarsUnchanged

\* mutant: the distinct links are listed last one first
paginationLinks_reversed(hrefs) ==
    LET links == uniqueInOrder(hrefs)
    IN  [k \in 1..Len(links) |-> links[Len(links) + 1 - k]]

\* mutant: the links are taken as they stand on the page, repeats included
paginationLinks_all(hrefs) == hrefs

\* Array.from(new Set(links.map(href))).filter(Boolean)
paginationLinks(hrefs) == uniqueInOrder(hrefs)

\* mutant: totalPages is set whether or not a link was found
statusOnLinks_always(st, links) == [st EXCEPT !.totalPages = Len(links) + 1]

\* mutant: totalPages counts the pagination links without the first page
statusOnLinks_linksOnly(st, links) ==
    IF Len(links) > 0 THEN [st EXCEPT !.totalPages = Len(links)] ELSE st

\* if (paginationLinks.length > 0) totalPages = paginationLinks.length + 1
statusOnLinks(st, links) ==
    IF Len(links) > 0 THEN [st EXCEPT !.totalPages = Len(links) + 1] ELSE st

\* mutant: the page counter leaves the first result page out
loopHead_fromOne(task, st, i) ==
    IF i < Len(task.links)
    THEN [task |-> [task EXCEPT !.pc = "goto", !.i = i],
          st   |-> [st EXCEPT !.currentPage = i + 1]]
    ELSE [task |-> [task EXCEPT !.pc = "close", !.i = i],
          st   |-> [st EXCEPT !.status = "completed"]]

\* the head of the pagination loop with index i: either the body up to
\* page.goto, or the exit of the loop up to page.close()
loopHead(task, st, i) ==
    IF i < Len(task.links)
    THEN [task |-> [task EXCEPT !.pc = "goto", !.i = i],
          st   |-> [st EXCEPT !.currentPage = i + 2]]
    ELSE [task |-> [task EXCEPT !.pc = "close", !.i = i],
          st   |-> [st EXCEPT !.status = "completed"]]

LinksOk(t) ==
    /\ sess[t].pc = "links"
    /\ LET links == paginationLinks(Directory(t).hrefs)
           next  == loopHead([sess[t] EXCEPT !.links = links],
                             statusOnLinks(nameStatus[t], links), 0)
       IN  /\ sess' = [sess EXCEPT ![t] = next.task]
           /\ nameStatus' = [nameStatus EXCEPT ![t] = next.st]
    /\ UNCHANGED << cache, open >>
    /\ SessionVarsUnchanged

GotoOk(t) ==
    /\ sess[t].pc = "goto"
    /\ sess' = [sess EXCEPT ![t].pc = "scrape",
                            ![t].calls = Append(@, sess[t].links[sess[t].i + 1])]
    /\ UNCHANGED << cache, nameStatus, open >>
    /\ SessionVarsUnchanged

\* allEntries.push(...pageEntries); i++
ScrapeOk(t) ==
    /\ sess[t].pc = "scrape"
    /\ LET href  == sess[t].links[sess[t].i + 1]
           found == scrapedPages[t].page[href]
           next  == loopHead([sess[t] EXCEPT !.acc = @ \o found],
                             nameStatus[t], sess[t].i + 1)
       IN  /\ sess' = [sess EXCEPT ![t] = next.task]
           /\ nameStatus' = [nameStatus EXCEPT ![t] = next.st]
    /\ UNCHANGED << cache, open >>
    /\ SessionVarsUnchanged

\* an awaited operation inside the try block throws: control goes to finally
Throw(t) ==
    /\ sess[t].pc \in {"search", "first", "links", "goto", "scrape"}
    /\ sess' = [sess EXCEPT ![t].pc = "close", ![t].err = TRUE,
                            ![t].calls = <<>>]
    /\ UNCHANGED << cache, nameStatus, open >>
    /\ SessionVarsUnchanged

\* finally { await page.close() }, then the return or the pending error
CloseOk(t) ==
    /\ sess[t].pc = "close"
    /\ sess' = [sess EXCEPT ![t].pc = IF sess[t].err THEN "thrown" ELSE "returned"]
    /\ open' = [open EXCEPT ![t] = @ - 1]
    /\ UNCHANGED << cache, nameStatus >>
    /\ SessionVarsUnchanged

\* page.close() itself throws: the page is given up, the error replaces
\* the return value
CloseFail(t) ==
    /\ sess[t].pc = "close"
    /\ sess' = [sess EXCEPT ![t].pc = "thrown", ![t].err = TRUE,
                            ![t].calls = <<>>]
    /\ open' = [open EXCEPT ![t] = @ - 1]
    /\ UNCHANGED << cache, nameStatus >>
    /\ SessionVarsUnchanged

(***************************************************************************)
(* The guard around scrapeByName in the batch callback.                    *)
(***************************************************************************)
\* mutant: the guard does not store the result
cacheAfter_never(c, dc, name, entries) == c

\* mutant: the guard stores every result, empty or not, bypass or not
cacheAfter_always(c, dc, name, entries) == (name :> entries) @@ c

\* if (!disableCache && entries.length > 0) cache[name] = entries
cacheAfter(c, dc, name, entries) ==
    IF ~dc /\ Len(entries) > 0 THEN (name :> entries) @@ c ELSE c

\* the task of the term settles while the task of a term before it in the
\* batch has not settled
Overtakes(t) ==
    LET batch == nameBatches[batchIndex + 1]
    IN  \E i, j \in 1..Len(batch) :
           /\ i < j
           /\ batch[j] = t
           /\ sess[batch[i]].pc \notin {"fulfilled", "rejected"}

GuardReturn(t) ==
    /\ sess[t].pc = "returned"
    /\ cache' = cacheAfter(cache, disableCache, t, sess[t].acc)
    /\ sess' = [sess EXCEPT ![t].pc = "fulfilled", ![t].value = sess[t].acc]
    /\ overtaken' = (overtaken \/ Overtakes(t))
    /\ UNCHANGED << nameStatus, open >>
    /\ GuardVarsUnchanged

\* mutant: the guard leaves the status as the session left it
catchStatus_keep(ns, name) == ns

\* mutant: the guard puts a failed term back to pending
catchStatus_pending(ns, name) ==
    IF name \in DOMAIN ns THEN [ns EXCEPT ![name].status = "pending"] ELSE ns

\* mutant: the guard marks every term completed, not only its own
catchStatus_all(ns, name) ==
    [t \in DOMAIN ns |-> [ns[t] EXCEPT !.status = "completed"]]

\* if (nameStatus[name]) nameStatus[name].status = "completed"
catchStatus(ns, name) ==
    IF name \in DOMAIN ns THEN [ns EXCEPT ![name].status = "completed"] ELSE ns

\* mutant: the guard rethrows
catchOutcome_rethrow(task) == [task EXCEPT !.pc = "rejected", !.value = <<>>]

\* mutant: the guard yields what the session had extracted when it threw
catchOutcome_partial(task) == [task EXCEPT !.pc = "fulfilled", !.value = task.acc]

\* return []
catchOutcome(task) == [task EXCEPT !.pc = "fulfilled", !.value = <<>>]

GuardCatch(t) ==
    /\ sess[t].pc = "thrown"
    /\ nameStatus' = catchStatus(nameStatus, t)
    /\ sess' = [sess EXCEPT ![t] = catchOutcome(sess[t])]
    /\ overtaken' = (overtaken \/ Overtakes(t))
    /\ UNCHANGED << cache, open >>
    /\ GuardVarsUnchanged

(***************************************************************************)
(* A second run of scrapeByNames on the same list, in succession.          *)
(***************************************************************************)
Rerun ==
    /\ pc = "done"
    /\ ~rerun
    /\ rerun' = TRUE
    /\ firstRun' = [output   |-> allEntries,
                    value    |-> [t \in Terms |-> sess[t].value],
                    launched |-> { t \in Terms : launches[t] > 0 },
                    threw    |-> { t \in Terms : sess[t].err },
                    cached   |-> DOMAIN cache]
    /\ pc' = "start"
    /\ UNCHANGED << names, disableCache, cache, nameStatus, nameBatches,
                    batchIndex, allEntries, sess, open, savedFile, saveLog,
                    launches, cacheAtStart, overtaken, call >>

SessionStep(t) ==
    \/ NewPageOk(t) \/ NewPageFail(t)
    \/ SetupOk(t) \/ SetupFail(t)
    \/ SearchOk(t) \/ FirstOk(t) \/ LinksOk(t) \/ GotoOk(t) \/ ScrapeOk(t)
    \/ Throw(t)
    \/ CloseOk(t) \/ CloseFail(t)
    \/ GuardReturn(t) \/ GuardCatch(t)

Next ==
    \/ Start
    \/ LaunchBatch
    \/ BatchSettle
    \/ Return
    \/ \E t \in Terms : SessionStep(t)

Spec == Init /\ [][Next]_vars

NextTwice == Next \/ Rerun

\* two successive runs with caching enabled
InitTwice == Init /\ ~disableCache /\ Len(names) <= MaxRerunNames

SpecTwice == InitTwice /\ [][NextTwice]_vars

\* every awaited browser operation eventually returns or throws, and the
\* runtime eventually resumes a continuation that is ready to run: the run
\* does not stop while a step of it can be taken
Fairness == WF_vars(Next)

SpecLive == Init /\ [][Next]_vars /\ Fairness

(***************************************************************************)
(* Direct calls of the pure functions, on arguments drawn from bounded     *)
(* sets; the pipeline does not run.                                        *)
(***************************************************************************)
\* longest list handed to splitIntoBatches
MaxSplitLen == 4
\* largest batch size handed to splitIntoBatches
MaxSplitSize == 3
\* largest number of result containers on a page handed to scrapePage
MaxContainers == 3

\* all sequences over S of length 0..n
SeqUpTo(S, n) == UNION { [1..k -> S] : k \in 0..n }

\* the example of the batch partitioning: 25 terms, batch size 10
ExampleSplit ==
    [array     |-> [k \in 1..25 |-> TermList[((k - 1) % MaxNames) + 1]],
     batchSize |-> 10]

SplitArgs ==
    { [array |-> a, batchSize |-> n] :
        a \in SeqUpTo(Terms, MaxSplitLen), n \in 1..MaxSplitSize }
    \cup { ExampleSplit }

\* telephone elements of a result container: missing, empty, not mobile,
\* mobile, mobile with white space inside and around, too short
SampleTels ==
    { <<>>,
      << <<" ">> >>,
      << <<"0","1","2","3","4","5","6">> >>,
      << <<"0","9","1","2","3","4","5","6","7","8">> >>,
      << <<" ","0","9"," ","1","\t">> >>,
      << <<"0"," ","9">> >>,
      << <<"9","0">> >> }

SampleContainers ==
    { Container(<<"T","R","G"," ","n","a"," ","1">>,
                <<"5","2"," ","p","u","l","a">>,
                tel, << <<"i","v","a"," ","K","I","S">> >>) : tel \in SampleTels }
    \cup { NoAddress(<< <<"0","9","9"," ","9">> >>, <<>>) }

ScrapeArgs == SeqUpTo(SampleContainers, MaxContainers)

\* largest number of space-separated tokens in a string handed to the
\* normalizer
MaxWords == 3

\* tokens: empty, prepositions, directional words, words ending in a
\* hyphen, a lone hyphen, ordinary words, in mixed case
SampleWords ==
    { <<>>,
      <<"i">>,
      <<"N","A">>,
      <<"j","u","g">>,
      <<"J","U","Z~","n","i">>,
      <<"u","l","i","c","a">>,
      <<"G","r","a","d","a">>,
      <<"n","O","V","O","-">>,
      <<"-">>,
      <<"k","\t","O">> }

\* the strings handed to parseFullName, parseCity and parseStreet
StringArgs == { join(ws) : ws \in SeqUpTo(SampleWords, MaxWords) }

InitFunctions ==
    /\ names = <<>>
    /\ disableCache = FALSE
    /\ cache = EmptyMap
    /\ nameStatus = EmptyMap
    /\ pc = "start"
    /\ nameBatches = <<>>
    /\ batchIndex = 0
    /\ allEntries = <<>>
    /\ sess = [t \in Terms |-> IdleTask]
    /\ open = [t \in Terms |-> 0]
    /\ savedFile = <<>>
    /\ saveLog = <<>>
    /\ launches = [t \in Terms |-> 0]
    /\ cacheAtStart = EmptyMap
    /\ rerun = FALSE
    /\ firstRun = NoFirstRun
    /\ overtaken = FALSE
    /\ call \in { [NoCall EXCEPT !.fn = "splitIntoBatches", !.arg = a] : a \in SplitArgs }
               \cup { [NoCall EXCEPT !.fn = "scrapePage", !.arg = a] : a \in ScrapeArgs }
               \cup { [NoCall EXCEPT !.fn = "parseFullName", !.arg = a] : a \in StringArgs }
               \cup { [NoCall EXCEPT !.fn = "parseStreet", !.arg = a] : a \in StringArgs }

PipelineUnchanged ==
    UNCHANGED << names, disableCache, cache, nameStatus, pc, nameBatches,
                 batchIndex, allEntries, sess, open, savedFile, saveLog,
                 launches, cacheAtStart, rerun, firstRun, overtaken >>

CallSplitIntoBatches ==
    /\ call.fn = "splitIntoBatches"
    /\ ~call.done
    /\ call' = [call EXCEPT
                   !.result = splitIntoBatches(call.arg.array, call.arg.batchSize),
                   !.done = TRUE]
    /\ PipelineUnchanged

CallScrapePage ==
    /\ call.fn = "scrapePage"
    /\ ~call.done
    /\ call' = [call EXCEPT !.result = scrapePage(call.arg), !.done = TRUE]
    /\ PipelineUnchanged

\* parseFullName and parseCity on the same string
CallParseFullName ==
    /\ call.fn = "parseFullName"
    /\ ~call.done
    /\ call' = [call EXCEPT
                   !.result = [name |-> parseFullName(call.arg),
                               city |-> parseCity(call.arg)],
                   !.done = TRUE]
    /\ PipelineUnchanged

CallParseStreet ==
    /\ call.fn = "parseStreet"
    /\ ~call.done
    /\ call' = [call EXCEPT !.result = parseStreet(call.arg), !.done = TRUE]
    /\ PipelineUnchanged

NextFunctions ==
    \/ CallSplitIntoBatches
    \/ CallScrapePage
    \/ CallParseFullName
    \/ CallParseStreet

SpecFunctions == InitFunctions /\ [][NextFunctions]_vars

(***************************************************************************)
(* Properties.                                                             *)
(***************************************************************************)
\* what a session of each term returns when no operation throws
FreshResults ==
    [t \in Terms |->
        LET d     == Directory(t)
            links == uniqueInOrder(d.hrefs)
        IN  scrapePage(d.first)
            \o flat([k \in 1..Len(links) |-> scrapePage(d.page[links[k]])])]

FreshResult(t) == FreshResults[t]

\* every entry the model holds for the term, stored or on the site
KnownEntries(t) == Range(OldResult(t)) \cup Range(FreshResult(t))

\* with caching enabled, the cached entries of the input terms that were
\* cache keys at the start of the run, in input order
SeedAtStart ==
    flat([k \in 1..Len(names) |->
            IF ~disableCache /\ names[k] \in DOMAIN cacheAtStart
            THEN cacheAtStart[names[k]] ELSE <<>>])

\* the values of the guarded tasks of batches 1..n, in batch and term order
ValuesUpTo(n) ==
    flat([k \in 1..n |->
            flat([j \in 1..Len(nameBatches[k]) |-> sess[nameBatches[k][j]].value])])

InFlight(t) == sess[t].pc \notin {"idle", "fulfilled", "rejected"}

\* C1: with caching enabled, a term that is a cache key when the run starts
\* is never given a session, and the returned list holds exactly the cached
\* entries of that term: all of them, in order, and no other entry of it.
C1_CachedTermSkipped ==
    ~disableCache =>
        \A t \in Range(names) \cap DOMAIN cacheAtStart :
            /\ launches[t] = 0
            /\ sess[t].pc = "idle"
            /\ pc = "done" =>
                 SelectSeq(allEntries, LAMBDA e : e \in KnownEntries(t))
                    = cacheAtStart[t]

C1_Witness ==
    /\ pc = "done"
    /\ ~disableCache
    /\ \E t \in Range(names) \cap DOMAIN cacheAtStart :
         \E u \in Range(names) : u /= t /\ launches[u] > 0 /\ sess[u].value /= <<>>

\* C2: when a session throws, scrapeByNames does not throw; the failing
\* term's task yields the empty list and its status is completed; every task
\* whose session returned yields the session's full result; and the list
\* built from the resolved batches holds every task's value, in order.
C2_FailureIsolated ==
    /\ pc /= "threw"
    /\ \A t \in Terms :
         /\ sess[t].pc /= "rejected"
         /\ (sess[t].pc = "fulfilled" /\ sess[t].err) =>
               /\ sess[t].value = <<>>
               /\ nameStatus[t].status = "completed"
         /\ (sess[t].pc = "fulfilled" /\ ~sess[t].err) =>
               sess[t].value = FreshResult(t)
    /\ pc \in {"loop", "await", "done"} =>
         allEntries = SeedAtStart \o ValuesUpTo(batchIndex)

C2_Witness ==
    /\ pc = "done"
    /\ \E k \in 1..Len(nameBatches) :
         \E t, u \in Range(nameBatches[k]) :
            /\ sess[t].err
            /\ ~sess[u].err
            /\ sess[u].value /= <<>>
            /\ Range(sess[u].value) \subseteq Range(allEntries)

\* C3: batches run one after the other: a term of a later batch has left
\* idle only if every task of every earlier batch has settled, so all terms
\* with status processing belong to one batch.
C3_BatchesSequential ==
    /\ \A k \in 1..Len(nameBatches) : \A j \in 1..(k - 1) :
         (\E t \in Range(nameBatches[k]) : sess[t].pc /= "idle")
            => \A u \in Range(nameBatches[j]) : sess[u].pc = "fulfilled"
    /\ \A t, u \in DOMAIN nameStatus :
         (nameStatus[t].status = "processing" /\ nameStatus[u].status = "processing")
            => \E k \in 1..Len(nameBatches) :
                  {t, u} \subseteq Range(nameBatches[k])

C3_Witness ==
    /\ pc = "await"
    /\ batchIndex = 1
    /\ Len(nameBatches[1]) = BATCH_SIZE
    /\ \E t \in Range(nameBatches[2]) : nameStatus[t].status = "processing"

\* the task of the term has settled: scrapeByName returned or threw
Exited(t) == sess[t].pc \in {"returned", "thrown", "fulfilled", "rejected"}

\* C4: after a session has settled, by returning or by throwing at any
\* step, no page opened for it remains open.
C4_PageClosedOnEveryExit ==
    \A t \in Terms : Exited(t) => open[t] = 0

\* C5: whenever scrapeByName has exited, by returning or by throwing, and
\* before its caller resumes, the status of its term is completed.
C5_CompletedAtExit ==
    \A t \in Terms :
        sess[t].pc \in {"returned", "thrown"} =>
            nameStatus[t].status = "completed"

\* C5 (amended): a term is processing from the entry of its session; when
\* scrapeByName returns, the status is completed; when it throws, the status
\* is completed once the guard of scrapeByNames has caught the error, so it
\* is completed whenever the guarded task has settled.
C5_CompletedWhenTaskSettles ==
    \A t \in Terms :
        /\ sess[t].pc \in {"newPage", "setup", "search", "first", "links",
                           "goto", "scrape"} =>
              nameStatus[t].status = "processing"
        /\ sess[t].pc = "returned" => nameStatus[t].status = "completed"
        /\ (sess[t].pc = "close" /\ ~sess[t].err) =>
              nameStatus[t].status = "completed"
        /\ sess[t].pc = "fulfilled" => nameStatus[t].status = "completed"

C5_Witness ==
    \E t, u \in Terms :
        /\ sess[t].pc = "fulfilled" /\ sess[t].err
        /\ nameStatus[t].totalPages /= DefaultTotalPages
        /\ sess[u].pc = "returned"

\* scrapeByNames is past its set-up
Running == pc \in {"loop", "await", "done"}

Collected(t) ==
    IF sess[t].pc = "fulfilled" THEN sess[t].value
    ELSE IF InFlight(t) THEN sess[t].acc
    ELSE <<>>

Occurrences(e, list) == Cardinality({ k \in 1..Len(list) : list[k] = e })

SameEntries(a, b) ==
    /\ Range(a) = Range(b)
    /\ \A e \in Range(a) : Occurrences(e, a) = Occurrences(e, b)

Launched == { t \in Terms : launches[t] > 0 }

\* C8: when scrapeByNames has run twice in succession on the same list with
\* caching enabled and the directory unchanged (and no operation of the
\* first run threw), the second run has launched no session and its output
\* list is identical to the output list of the first run.
C8_SecondRunIdentical ==
    (rerun /\ pc = "done" /\ firstRun.threw = {}) =>
        /\ Launched = {}
        /\ allEntries = firstRun.output

\* C8 (amended): the second run launches a session exactly for the input
\* terms that are no cache keys after the first run, which are terms whose
\* first-run task yielded no entry (an empty result or a thrown error); when
\* there is no such term it launches no session and its output holds the
\* same entries as the first run's output, each as often, listed in input
\* order of their terms.
C8_SecondRunFromCache ==
    (rerun /\ Running) =>
        /\ \A t \in Launched :
              /\ t \in Range(names) \ firstRun.cached
              /\ firstRun.value[t] = <<>>
        /\ pc = "done" => Launched = Range(names) \ firstRun.cached
        /\ (pc = "done" /\ Range(names) \subseteq firstRun.cached) =>
              /\ SameEntries(allEntries, firstRun.output)
              /\ allEntries = flat([k \in 1..Len(names) |-> cache[names[k]]])

C8_Witness ==
    /\ rerun
    /\ pc = "done"
    /\ Launched = {}
    /\ firstRun.launched /= {}
    /\ firstRun.threw = {}
    /\ allEntries /= firstRun.output

\* the telephone number without its whitespace starts with "09"
MobileNumber(e) ==
    LET digits == SelectSeq(e.telephoneNumber, LAMBDA c : c /= " " /\ c /= "\t")
    IN  Len(digits) >= 2 /\ SubSeq(digits, 1, 2) = <<"0", "9">>

\* C9: every entry of the accumulated (and returned) list and of every
\* checkpoint, freshly scraped or seeded from the cache, has a telephone
\* number whose whitespace-stripped form starts with "09".
C9_OnlyMobileNumbers ==
    /\ \A e \in Range(allEntries) \cup Range(savedFile) : MobileNumber(e)
    /\ \A k \in 1..Len(saveLog) : \A e \in Range(saveLog[k]) : MobileNumber(e)

C9_Witness ==
    /\ pc = "done"
    /\ \E t, u \in Range(names) :
          /\ t \in DOMAIN cacheAtStart /\ ~disableCache
          /\ Range(cacheAtStart[t]) \subseteq Range(allEntries)
          /\ launches[u] > 0
          /\ \E e \in Range(sess[u].value) :
                /\ e \in Range(allEntries)
                /\ e \in Range(savedFile)
                /\ " " \in Range(e.telephoneNumber)
          /\ Len(sess[u].value) < Len(Directory(u).first) + 1

RECURSIVE SumOver(_, _)
SumOver(f, S) ==
    IF S = {} THEN 0
    ELSE LET x == CHOOSE x \in S : TRUE IN f[x] + SumOver(f, S \ {x})

\* C10: in every reachable state at most BATCH_SIZE sessions are in flight
\* (terms with status processing) and at most BATCH_SIZE pages are open.
C10_BoundedByBatchSize ==
    /\ Cardinality({ t \in DOMAIN nameStatus :
                       nameStatus[t].status = "processing" }) <= BATCH_SIZE
    /\ SumOver(open, Terms) <= BATCH_SIZE

\* the cache key of the term has been created or overwritten in this run
Written(t) ==
    /\ t \in DOMAIN cache
    /\ t \in DOMAIN cacheAtStart => cache[t] /= cacheAtStart[t]

\* C11: a term's cache key is written during a run only if caching is
\* enabled and the term's session returned a non-empty list, which is then
\* the stored value; a session that returned the empty list or threw leaves
\* the cache as it was, and no key that was there at the start goes away.
C11_CacheWriteOnlyNonEmpty ==
    /\ \A t \in DOMAIN cacheAtStart : t \in DOMAIN cache
    /\ \A t \in DOMAIN cache : cache[t] /= <<>>
    /\ \A t \in Terms :
          Written(t) =>
             /\ ~disableCache
             /\ sess[t].pc = "fulfilled"
             /\ ~sess[t].err
             /\ sess[t].acc /= <<>>
             /\ cache[t] = sess[t].acc
    /\ \A t \in Terms :
          (sess[t].pc = "fulfilled" /\ (sess[t].err \/ sess[t].acc = <<>>)) =>
             /\ ~Written(t)
             /\ t \in DOMAIN cache <=> t \in DOMAIN cacheAtStart

C11_Witness ==
    /\ pc = "done"
    /\ ~disableCache
    /\ \E t, u, w \in Range(names) :
          /\ Written(t)
          /\ sess[u].pc = "fulfilled" /\ ~sess[u].err /\ sess[u].acc = <<>>
          /\ u \notin DOMAIN cache
          /\ sess[w].pc = "fulfilled" /\ sess[w].err /\ sess[w].acc /= <<>>
          /\ w \notin DOMAIN cache

\* the entries of the list that the site serves for the term
FromSite(t, list) == SelectSeq(list, LAMBDA e : e \in Range(FreshResult(t)))

\* C12: a session that throws contributes nothing, whatever it had extracted
\* before: none of its entries is in the accumulator, in a checkpoint or in
\* the cache; a term contributes to each of them either the entries of all
\* its pages or none.
C12_AllOrNothing ==
    /\ \A t \in Terms :
          sess[t].err =>
             /\ Range(sess[t].acc) \cap Range(allEntries) = {}
             /\ Range(sess[t].acc) \cap Range(savedFile) = {}
             /\ \A k \in 1..Len(saveLog) :
                   Range(sess[t].acc) \cap Range(saveLog[k]) = {}
             /\ \A u \in DOMAIN cache :
                   Range(sess[t].acc) \cap Range(cache[u]) = {}
             /\ sess[t].pc = "fulfilled" => sess[t].value = <<>>
    /\ \A t \in Terms :
          /\ FromSite(t, allEntries) \in {<<>>, FreshResult(t)}
          /\ FromSite(t, savedFile) \in {<<>>, FreshResult(t)}
          /\ \A k \in 1..Len(saveLog) :
                FromSite(t, saveLog[k]) \in {<<>>, FreshResult(t)}
          /\ \A u \in DOMAIN cache :
                FromSite(t, cache[u]) \in {<<>>, FreshResult(t)}

C12_Witness ==
    /\ pc = "done"
    /\ ~disableCache
    /\ \E t, u \in Range(names) :
          /\ sess[t].err
          /\ sess[t].acc /= <<>>
          /\ sess[t].i >= 1
          /\ sess[u].pc = "fulfilled" /\ ~sess[u].err
          /\ FromSite(u, allEntries) = FreshResult(u)
          /\ FreshResult(u) /= <<>>

\* C13: with the cache-bypass flag set every input term is given a session,
\* cache key or not; the accumulator holds session results only, no cached
\* entry; and the cache map stays as it was at the start of the run.
C13_BypassIgnoresCache ==
    disableCache =>
        /\ cache = cacheAtStart
        /\ Running =>
              /\ flat(nameBatches) = names
              /\ allEntries = ValuesUpTo(batchIndex)
              /\ \A t \in Terms : Range(OldResult(t)) \cap Range(allEntries) = {}
        /\ pc = "done" => \A t \in Range(names) : launches[t] = 1

C13_Witness ==
    /\ disableCache
    /\ pc = "done"
    /\ names /= <<>>
    /\ Range(names) \subseteq DOMAIN cacheAtStart
    /\ \E t \in Range(names) : ~sess[t].err /\ sess[t].value /= <<>>

\* the smallest whole number not below n / d
CeilDiv(n, d) == (n + d - 1) \div d

\* C14: splitIntoBatches(list, size) with size >= 1 yields a contiguous
\* partition in order: the batches concatenated are the list, every batch
\* but the last holds size elements, the last holds 1..size, and there are
\* ceil(n / size) batches; 25 terms with size 10 give batches of 10, 10 and
\* 5, and the empty list gives no batch.
C14_SplitIsPartition ==
    (call.fn = "splitIntoBatches" /\ call.done) =>
        LET array   == call.arg.array
            size    == call.arg.batchSize
            batches == call.result
        IN  /\ flat(batches) = array
            /\ Len(batches) = CeilDiv(Len(array), size)
            /\ \A k \in 1..(Len(batches) - 1) : Len(batches[k]) = size
            /\ Len(batches) > 0 =>
                  /\ Len(batches[Len(batches)]) >= 1
                  /\ Len(batches[Len(batches)]) <= size
            /\ array = <<>> => batches = <<>>
            /\ call.arg = ExampleSplit =>
                  [k \in 1..Len(batches) |-> Len(batches[k])] = <<10, 10, 5>>

C14_Witness ==
    /\ call.fn = "splitIntoBatches"
    /\ call.done
    /\ Len(call.arg.array) = 4
    /\ call.arg.batchSize = 3
    /\ Len(call.result) = 2
    /\ Len(call.result[2]) = 1

\* the telephone text extracted from a result container
ScrapedTel(container) ==
    IF container.tel = <<>> THEN <<>> ELSE trim(container.tel[1])

\* the text without its white space
Stripped(text) == SelectSeq(text, LAMBDA c : c /= " " /\ c /= "\t")

\* C17: scrapePage returns, in container order, exactly the records whose
\* telephone number without white space starts with "09": one for every
\* such container and for no other (never for "0123456" or a missing phone
\* element, always for "0912345678"); a returned entry carries the
\* telephone number as extracted, white space inside included.
C17_ScrapePageFilter ==
    (call.fn = "scrapePage" /\ call.done) =>
        LET containers == call.arg
            entries    == call.result
            kept   == { i \in 1..Len(containers) :
                          MobileNumber([telephoneNumber |-> ScrapedTel(containers[i])]) }
            idx(k) == CHOOSE i \in kept : Cardinality({ j \in kept : j < i }) = k - 1
        IN  /\ Len(entries) = Cardinality(kept)
            /\ \A k \in 1..Len(entries) :
                  /\ entries[k].telephoneNumber = ScrapedTel(containers[idx(k)])
                  /\ entries[k].fullName =
                        parseFullName(textOf(containers[idx(k)].name))
                  /\ entries[k].street =
                        parseStreet(divText(containers[idx(k)].divs, 1))
            /\ \A k \in 1..Len(entries) :
                  /\ Stripped(entries[k].telephoneNumber) /= <<"0","1","2","3","4","5","6">>
                  /\ entries[k].telephoneNumber /= <<>>
            /\ \A i \in 1..Len(containers) :
                  Stripped(ScrapedTel(containers[i])) = <<"0","9","1","2","3","4","5","6","7","8">>
                     => i \in kept

C17_Witness ==
    /\ call.fn = "scrapePage"
    /\ call.done
    /\ Len(call.arg) = 3
    /\ Stripped(ScrapedTel(call.arg[1])) = <<"0","1","2","3","4","5","6">>
    /\ call.arg[2].tel = << <<" ","0","9"," ","1","\t">> >>
    /\ Stripped(ScrapedTel(call.arg[3])) = <<"0","9","1","2","3","4","5","6","7","8">>
    /\ Len(call.result) = 2
    /\ call.result[1].telephoneNumber = <<"0","9"," ","1">>

\* scrapeByNames has finished its set-up and has started no session yet
BeforeFirstSession == pc = "loop" /\ batchIndex = 0

\* the term is resolved from the cache in this run
CachedTerm(t) == ~disableCache /\ t \in DOMAIN cacheAtStart

\* C15: before the first session of a run starts every input term has a
\* progress record: pending, currentPage 0, totalPages 10 for a cache-miss
\* term; completed with currentPage = totalPages for a cached term (caching
\* enabled), which is never processing at any later moment of the run.
C15_ProgressBeforeFirstSession ==
    /\ BeforeFirstSession =>
          \A t \in Range(names) :
             /\ t \in DOMAIN nameStatus
             /\ launches[t] = 0
             /\ ~CachedTerm(t) =>
                   /\ nameStatus[t].status = "pending"
                   /\ nameStatus[t].currentPage = 0
                   /\ nameStatus[t].totalPages = 10
             /\ CachedTerm(t) =>
                   /\ nameStatus[t].status = "completed"
                   /\ nameStatus[t].currentPage = nameStatus[t].totalPages
    /\ Running =>
          \A t \in Range(names) :
             CachedTerm(t) =>
                /\ nameStatus[t].status = "completed"
                /\ nameStatus[t].currentPage = nameStatus[t].totalPages

C15_Witness ==
    /\ BeforeFirstSession
    /\ Len(nameBatches) > 0
    /\ \E t, u \in Range(names) : CachedTerm(t) /\ ~CachedTerm(u)

\* the input terms that are no cache keys at the start, in input order
CacheMisses == SelectSeq(names, LAMBDA t : t \notin DOMAIN cacheAtStart)

\* C16: with caching enabled the batches partition the sub-list of the
\* input terms that are absent from the cache, in input order, in batches
\* of BATCH_SIZE (the last one may be shorter); no cached term is in a batch.
C16_BatchesOfCacheMisses ==
    (Running /\ ~disableCache) =>
        /\ flat(nameBatches) = CacheMisses
        /\ Len(nameBatches) = CeilDiv(Len(CacheMisses), BATCH_SIZE)
        /\ \A k \in 1..(Len(nameBatches) - 1) : Len(nameBatches[k]) = BATCH_SIZE
        /\ \A k \in 1..Len(nameBatches) :
              /\ Len(nameBatches[k]) \in 1..BATCH_SIZE
              /\ Range(nameBatches[k]) \cap DOMAIN cacheAtStart = {}

C16_Witness ==
    /\ Running
    /\ ~disableCache
    /\ Len(names) = 3
    /\ names[2] \in DOMAIN cacheAtStart
    /\ nameBatches = << <<names[1], names[3]>> >>

\* a session of the term is between its start and the end of page.close()
SessionRunning(t) ==
    sess[t].pc \in {"newPage", "setup", "search", "first", "links", "goto",
                    "scrape", "close"}

\* C18: the cache is updated with a batch's results only after the batch has
\* resolved: no cache key of a term of a batch is written while a session of
\* that batch is still running.
C18_CacheAfterBatchResolved ==
    \A k \in 1..Len(nameBatches) : \A t, u \in Range(nameBatches[k]) :
        Written(t) => ~SessionRunning(u)

\* C18 (amended): a term's cache key is written when the term's own session
\* has returned, whatever the other sessions of the batch are doing; and by
\* the time the batch's results are merged into the accumulator the key of
\* every term of the batch with a non-empty result holds that result.
C18_CacheAfterOwnSession ==
    /\ \A t \in Terms :
          Written(t) => sess[t].pc = "fulfilled" /\ ~sess[t].err /\ open[t] = 0
    /\ (Running /\ ~disableCache) =>
          \A k \in 1..batchIndex : \A t \in Range(nameBatches[k]) :
             sess[t].value /= <<>> =>
                t \in DOMAIN cache /\ cache[t] = sess[t].value

C18_Witness ==
    /\ pc = "await"
    /\ \E t, u \in Range(nameBatches[batchIndex + 1]) :
          /\ Written(t)
          /\ sess[u].pc \in {"search", "first", "links", "goto", "scrape"}

\* the positions of the first occurrences of the hrefs
FirstAt(hrefs) ==
    { i \in 1..Len(hrefs) : \A j \in 1..(i - 1) : hrefs[j] /= hrefs[i] }

\* the k-th distinct href in order of discovery
Target(hrefs, k) ==
    hrefs[CHOOSE i \in FirstAt(hrefs) :
            Cardinality({ j \in FirstAt(hrefs) : j < i }) = k - 1]

\* the entries of the first result page and of the first n pagination targets
PagesUpTo(t, n) ==
    scrapePage(Directory(t).first)
    \o flat([k \in 1..n |->
                scrapePage(Directory(t).page[Target(Directory(t).hrefs, k)])])

\* C19: the entries a session returns are in page-visit order: those of the
\* first result page, then those of each pagination target in the order the
\* links were discovered, each page's entries together and in extraction
\* order; while the session runs its list is the part for the pages visited.
C19_PageVisitOrder ==
    \A t \in Terms :
        /\ (sess[t].pc \in {"returned", "fulfilled"} /\ ~sess[t].err) =>
              /\ sess[t].acc = PagesUpTo(t, Cardinality(FirstAt(Directory(t).hrefs)))
              /\ sess[t].pc = "fulfilled" => sess[t].value = sess[t].acc
        /\ sess[t].pc \in {"goto", "scrape"} =>
              sess[t].acc = PagesUpTo(t, sess[t].i)

C19_Witness ==
    \E t \in Terms :
        /\ sess[t].pc = "fulfilled"
        /\ ~sess[t].err
        /\ Cardinality(FirstAt(Directory(t).hrefs)) = 2
        /\ Len(Directory(t).hrefs) = 3
        /\ Len(sess[t].value) = 3
        /\ sess[t].value[2] \in Range(scrapePage(Directory(t).page[Directory(t).hrefs[1]]))
        /\ sess[t].value[3] \in Range(scrapePage(Directory(t).page[Directory(t).hrefs[2]]))

\* the number of distinct pagination links on the term's first result page
LinkCount(t) == Cardinality(Range(Directory(t).hrefs))

\* the session of the term has read the pagination links without throwing
PastLinks(t) ==
    \/ sess[t].pc \in {"goto", "scrape"}
    \/ sess[t].pc \in {"close", "returned", "fulfilled"} /\ ~sess[t].err

\* C20: when the first result page has L >= 1 distinct pagination links,
\* totalPages is L + 1 from before the first pagination target is visited;
\* when it has none, totalPages keeps its default 10 during the session and
\* after it has completed.
C20_TotalPagesFromLinks ==
    \A t \in Terms :
        /\ (PastLinks(t) /\ LinkCount(t) >= 1) =>
              nameStatus[t].totalPages = LinkCount(t) + 1
        /\ (launches[t] > 0 /\ LinkCount(t) = 0) =>
              nameStatus[t].totalPages = 10
        /\ sess[t].pc \in {"newPage", "setup", "search", "first", "links"} =>
              nameStatus[t].totalPages = 10

C20_Witness ==
    \E t, u \in Terms :
        /\ sess[t].pc = "goto"
        /\ sess[t].i = 0
        /\ Len(Directory(t).hrefs) > LinkCount(t)
        /\ nameStatus[t].totalPages = LinkCount(t) + 1
        /\ sess[u].pc = "fulfilled"
        /\ ~sess[u].err
        /\ LinkCount(u) = 0
        /\ nameStatus[u].totalPages = 10
        /\ nameStatus[u].status = "completed"

\* the number of pages of the term whose visit has begun: the first result
\* page from the start of the session, and every pagination target from the
\* loop iteration that navigates to it
PagesBegun(t) ==
    IF sess[t].pc \in {"goto", "scrape"} THEN sess[t].i + 2
    ELSE IF sess[t].pc \in {"newPage", "setup", "search", "first", "links"} THEN 1
    ELSE IF sess[t].links = <<>> THEN 1
    ELSE Len(sess[t].links) + 1

\* the task of the term has been started in this run
Started(t) == sess[t].pc /= "idle"

\* C21: during a session the term's currentPage equals the number of pages
\* whose visit has begun, so 1, 2, ..., L + 1 in that order; each step of
\* the session leaves it or raises it by exactly one, never lowers it, and
\* a session that returned has counted all L + 1 pages.
C21_CurrentPagePerVisit ==
    /\ [](\A t \in Terms :
            /\ SessionRunning(t) /\ ~sess[t].err =>
                  nameStatus[t].currentPage = PagesBegun(t)
            /\ (sess[t].pc \in {"returned", "fulfilled"} /\ ~sess[t].err) =>
                  nameStatus[t].currentPage =
                     IF LinkCount(t) = 0 THEN 1 ELSE LinkCount(t) + 1)
    /\ [][\A t \in DOMAIN nameStatus \cap DOMAIN nameStatus' :
            (Started(t))' =>
               \/ nameStatus'[t].currentPage = nameStatus[t].currentPage
               \/ nameStatus'[t].currentPage = nameStatus[t].currentPage + 1]_vars

C21_Witness ==
    \E t \in Terms :
        /\ sess[t].pc = "scrape"
        /\ sess[t].i = 1
        /\ LinkCount(t) = 2
        /\ nameStatus[t].currentPage = 3

\* the position where the token around position p of the text starts
TokenStart(text, p) ==
    CHOOSE a \in 1..p :
        /\ \A q \in a..p : text[q] /= " "
        /\ a = 1 \/ text[a - 1] = " "

\* the position where the token around position p of the text ends
TokenEnd(text, p) ==
    CHOOSE b \in p..Len(text) :
        /\ \A q \in p..b : text[q] /= " "
        /\ b = Len(text) \/ text[b + 1] = " "

\* first character in upper case, the others in lower case
CapitalizedAt(text, p) ==
    IF p = TokenStart(text, p) THEN UpperChar(text[p]) ELSE LowerChar(text[p])

\* C22: parseFullName and parseCity return the same string for every
\* input: every space stays where it is (so empty tokens stay empty and the
\* tokens are rejoined with single spaces), the first character of every
\* token is in upper case and its other characters are in lower case.
C22_NameAndCityAlike ==
    (call.fn = "parseFullName" /\ call.done) =>
        /\ call.result.name = call.result.city
        /\ Len(call.result.name) = Len(call.arg)
        /\ \A p \in 1..Len(call.arg) :
              call.result.name[p] =
                 IF call.arg[p] = " " THEN " " ELSE CapitalizedAt(call.arg, p)

C22_Witness ==
    /\ call.fn = "parseFullName"
    /\ call.done
    /\ call.arg = <<"n","O","V","O","-"," "," ","G","r","a","d","a">>
    /\ call.result.city = <<"N","o","v","o","-"," "," ","G","r","a","d","a">>

\* the token of the text around position p, in lower case
LowerToken(text, p) ==
    toLowerCase(SubSeq(text, TokenStart(text, p), TokenEnd(text, p)))

\* the token around position p is the first token of the text or follows
\* a token that ends in a hyphen
LeadingToken(text, p) ==
    LET a == TokenStart(text, p)
    IN  a = 1 \/ (a >= 3 /\ text[a - 2] = "-")

\* C23: parseStreet maps the empty string to the empty string; otherwise a
\* token that is first or follows a token ending in a hyphen is capitalized
\* whatever it is, any other token whose lower-case form is a preposition or
\* a directional word is put in lower case, every remaining token is
\* capitalized, and the spaces stay; "ulica i Grada" gives "Ulica i Grada".
C23_StreetRule ==
    (call.fn = "parseStreet" /\ call.done) =>
        /\ call.arg = <<>> => call.result = <<>>
        /\ Len(call.result) = Len(call.arg)
        /\ \A p \in 1..Len(call.arg) :
              call.result[p] =
                 IF call.arg[p] = " " THEN " "
                 ELSE IF LeadingToken(call.arg, p) THEN CapitalizedAt(call.arg, p)
                 ELSE IF LowerToken(call.arg, p) \in lowerCaseWords \cup directionalWords
                      THEN LowerChar(call.arg[p])
                 ELSE CapitalizedAt(call.arg, p)
        /\ call.arg = <<"u","l","i","c","a"," ","i"," ","G","r","a","d","a">> =>
              call.result = <<"U","l","i","c","a"," ","i"," ","G","r","a","d","a">>

C23_Witness ==
    /\ call.fn = "parseStreet"
    /\ call.done
    /\ call.arg = <<"N","A"," ","n","O","V","O","-"," ","J","U","Z~","n","i">>
    /\ call.result = <<"N","a"," ","N","o","v","o","-"," ","J","u","z~","n","i">>

\* C24: when every browser operation eventually returns or throws, every
\* started session eventually settles, every batch eventually resolves, and
\* scrapeByNames eventually returns, after the last batch, with every batch
\* merged into the list.
C24_EventuallyReturns ==
    <>[](/\ pc = "done"
         /\ batchIndex = Len(nameBatches)
         /\ \A k \in 1..Len(nameBatches) : \A t \in Range(nameBatches[k]) :
               sess[t].pc = "fulfilled"
         /\ \A t \in Terms : ~SessionRunning(t)
         /\ allEntries = SeedAtStart \o ValuesUpTo(Len(nameBatches)))

C24_Witness ==
    /\ pc = "done"
    /\ Len(nameBatches) = 2
    /\ \E t, u \in Range(names) :
          /\ sess[t].pc = "fulfilled" /\ sess[t].err
          /\ sess[u].pc = "fulfilled" /\ ~sess[u].err /\ sess[u].i = 2

\* C25: a session that has not settled blocks its batch: as long as a task
\* of a batch is unsettled, scrapeByNames waits in that batch, no term of a
\* later batch is started, no checkpoint of the batch is written, and no
\* entry of any session of the batch, finished or not, is in the accumulator
\* or in the output file; a session may stay unsettled forever.
C25_HungSessionBlocksBatch ==
    \A k \in 1..Len(nameBatches) :
        (\E t \in Range(nameBatches[k]) : InFlight(t)) =>
            /\ pc = "await"
            /\ batchIndex = k - 1
            /\ Len(saveLog) = k - 1
            /\ \A j \in (k + 1)..Len(nameBatches) : \A u \in Range(nameBatches[j]) :
                  sess[u].pc = "idle" /\ launches[u] = 0
            /\ \A u \in Range(nameBatches[k]) :
                  /\ Range(sess[u].acc) \cap Range(allEntries) = {}
                  /\ Range(sess[u].acc) \cap Range(savedFile) = {}

C25_Witness ==
    /\ pc = "await"
    /\ batchIndex + 1 < Len(nameBatches)
    /\ \E t, u \in Range(nameBatches[batchIndex + 1]) :
          /\ sess[t].pc = "search"
          /\ sess[u].pc = "fulfilled"
          /\ sess[u].value /= <<>>
          /\ Range(sess[u].value) \cap Range(allEntries) = {}

\* what the task of a started term yields: nothing when its session threw,
\* the entries of all its pages otherwise
Outcome(t) == IF sess[t].err THEN <<>> ELSE FreshResult(t)

\* C26: the returned list does not depend on how the sessions of a batch
\* interleave or on the order in which they settle: it is the cached entries
\* of the cached terms in input order, followed by what the tasks of the
\* cache-miss terms yield, in input order.
C26_OutputIndependentOfInterleaving ==
    pc = "done" =>
        allEntries =
            flat([k \in 1..Len(names) |->
                    IF CachedTerm(names[k]) THEN cacheAtStart[names[k]] ELSE <<>>])
            \o flat([k \in 1..Len(names) |->
                    IF CachedTerm(names[k]) THEN <<>> ELSE Outcome(names[k])])

C26_Witness ==
    /\ pc = "done"
    /\ overtaken
    /\ \E t \in Range(names) : CachedTerm(t)
    /\ \E k \in 1..Len(nameBatches) : \E i, j \in 1..Len(nameBatches[k]) :
          /\ i < j
          /\ ~sess[nameBatches[k][i]].err /\ sess[nameBatches[k][i]].value /= <<>>
          /\ ~sess[nameBatches[k][j]].err /\ sess[nameBatches[k][j]].value /= <<>>

\* the place of a status in the order pending, processing, completed
StatusRank(status) ==
    CASE status = "pending"    -> 0
      [] status = "processing" -> 1
      [] status = "completed"  -> 2

\* C27: within one run over distinct terms the status of a term only moves
\* forward in the order pending, processing, completed: no step of the run
\* takes a completed term back to processing or pending, or a processing
\* term back to pending, and no step removes a progress record.
C27_StatusOnlyForward ==
    [][\A t \in DOMAIN nameStatus :
          /\ t \in DOMAIN nameStatus'
          /\ StatusRank(nameStatus'[t].status) >= StatusRank(nameStatus[t].status)]_vars

C27_Witness ==
    /\ pc = "await"
    /\ \E c, f, r \in Range(names) :
          /\ CachedTerm(c) /\ nameStatus[c].status = "completed"
          /\ sess[f].pc = "fulfilled" /\ sess[f].err
          /\ nameStatus[f].status = "completed"
          /\ SessionRunning(r) /\ nameStatus[r].status = "processing"

\* C28: every progress record has 0 <= currentPage <= totalPages and
\* totalPages >= 1 in every state of the run, also between the correction
\* of totalPages and the page visits that follow, and after a failure.
C28_PageCounterWithinTotal ==
    \A t \in DOMAIN nameStatus :
        /\ 0 <= nameStatus[t].currentPage
        /\ nameStatus[t].currentPage <= nameStatus[t].totalPages
        /\ nameStatus[t].totalPages >= 1

C28_Witness ==
    \E t, u \in Range(names) :
        /\ sess[t].pc = "goto"
        /\ sess[t].i + 1 = Len(sess[t].links)
        /\ nameStatus[t].totalPages = Len(sess[t].links) + 1
        /\ nameStatus[t].totalPages /= DefaultTotalPages
        /\ nameStatus[t].currentPage = nameStatus[t].totalPages
        /\ sess[u].pc = "fulfilled" /\ sess[u].err
        /\ sess[u].links /= <<>>
        /\ nameStatus[u].currentPage >= 2

\* a step of the session or of the guard of the term: the task of the term
\* moves while scrapeByNames itself stays where it is
StepFor(a) == pc' = pc /\ sess'[a] /= sess[a]

\* the entry of the term in a shared map is the same before and after
SameEntry(map, mapAfter, b) ==
    /\ b \in DOMAIN mapAfter <=> b \in DOMAIN map
    /\ b \in DOMAIN map => mapAfter[b] = map[b]

\* C29: sessions that run concurrently do not interfere through the shared
\* maps: a step of the session or of the guard of term A leaves the progress
\* record and the cache entry of every other term B as they were.
C29_NoInterference ==
    [][\A a \in Terms :
          StepFor(a) =>
             \A b \in Terms \ {a} :
                /\ SameEntry(nameStatus, nameStatus', b)
                /\ SameEntry(cache, cache', b)]_vars

C29_Witness ==
    /\ ~disableCache
    /\ \E k \in 1..Len(nameBatches) : \E i, j \in 1..Len(nameBatches[k]) :
          LET a == nameBatches[k][j]
              b == nameBatches[k][i]
          IN  /\ i < j
              /\ sess[a].pc = "fulfilled" /\ sess[a].value /= <<>>
              /\ cache[a] = sess[a].value
              /\ nameStatus[a].status = "completed"
              /\ nameStatus[a].totalPages /= DefaultTotalPages
              /\ sess[b].pc = "newPage"
              /\ nameStatus[b] = [InitialStatus EXCEPT !.status = "processing",
                                                       !.currentPage = 1]
              /\ b \notin DOMAIN cache

\* the session of the term has visited the first result page and every
\* pagination target, and no operation of it threw
FinishedAllPages(t) ==
    /\ sess[t].pc = "fulfilled"
    /\ ~sess[t].err
    /\ Len(sess[t].links) = LinkCount(t)
    /\ sess[t].i = LinkCount(t)

\* the terms given a session in this run
InBatches == UNION { Range(nameBatches[k]) : k \in 1..Len(nameBatches) }

\* C30: every cache key written during a run holds the complete, non-empty
\* entry list of a session that finished all its pages without an error; a
\* session that failed leaves no key behind, with an empty list or with the
\* entries it had collected, so that the next run on the same list gives
\* the failed term a session again.
C30_CacheHoldsOnlyFinishedSessions ==
    /\ \A t \in Terms :
          Written(t) =>
             /\ cache[t] /= <<>>
             /\ cache[t] = FreshResult(t)
             /\ FinishedAllPages(t)
    /\ \A t \in Terms :
          sess[t].err =>
             /\ ~Written(t)
             /\ t \in DOMAIN cache <=> t \in DOMAIN cacheAtStart
    /\ (rerun /\ pc /= "start") =>
          \A t \in firstRun.threw \cap Range(names) :
             /\ t \in InBatches
             /\ pc = "done" => launches[t] = 1

C30_Witness ==
    /\ rerun
    /\ pc = "done"
    /\ \E t, u \in firstRun.threw :
          /\ launches[t] = 1 /\ Written(t) /\ cache[t] = sess[t].value
          /\ Len(cache[t]) >= 2
          /\ launches[u] = 1 /\ sess[u].err
          /\ u \notin DOMAIN cache

\* C31: when scrapeByNames has returned, every input term has a progress
\* record with status completed, none pending or processing, and the task of
\* no term is in flight, whichever terms were cached, succeeded or failed.
C31_AllCompletedAtReturn ==
    pc = "done" =>
        /\ \A t \in Range(names) :
              /\ t \in DOMAIN nameStatus
              /\ nameStatus[t].status = "completed"
        /\ \A t \in Terms :
              /\ ~InFlight(t)
              /\ ~SessionRunning(t)

C31_Witness ==
    /\ pc = "done"
    /\ \E c, ok, bad \in Range(names) :
          /\ CachedTerm(c) /\ launches[c] = 0
          /\ launches[ok] = 1 /\ ~sess[ok].err /\ sess[ok].value /= <<>>
          /\ launches[bad] = 1 /\ sess[bad].err /\ sess[bad].acc /= <<>>
          /\ nameStatus[bad].currentPage < nameStatus[bad].totalPages

\* the first list is an initial segment of the second
IsPrefix(a, b) == Len(a) <= Len(b) /\ SubSeq(b, 1, Len(a)) = a

\* C32: the output accumulator only grows by appending: every step of the
\* run leaves the list it held as an initial segment of the list it holds
\* afterwards; the list of each checkpoint is an initial segment of the list
\* of every later checkpoint and of the accumulator, hence of the returned
\* list; and the cache-seeded entries are an initial segment of all of them.
C32_AccumulatorAppendOnly ==
    /\ [](Running =>
            /\ IsPrefix(SeedAtStart, allEntries)
            /\ \A k \in 1..Len(saveLog) :
                  /\ IsPrefix(SeedAtStart, saveLog[k])
                  /\ IsPrefix(saveLog[k], allEntries)
                  /\ \A m \in k..Len(saveLog) : IsPrefix(saveLog[k], saveLog[m]))
    /\ [][IsPrefix(allEntries, allEntries')
          /\ (pc /= "start" => IsPrefix(saveLog, saveLog'))]_vars

C32_Witness ==
    /\ pc = "done"
    /\ Len(saveLog) = 2
    /\ saveLog[1] /= <<>>
    /\ Len(saveLog[2]) > Len(saveLog[1])
    /\ allEntries = saveLog[2]

\* the hrefs of the pagination links on the term's first result page
FirstPageTargets(t) == Range(Directory(t).hrefs)

\* the hrefs that appear as pagination links on a page behind a link of the
\* first page but not on the first page itself
LaterOnlyTargets(t) ==
    (UNION { Range(Directory(t).later[h]) : h \in FirstPageTargets(t) })
        \ FirstPageTargets(t)

\* how often scrapePage has been called on the page in the term's session
CallsOn(t, page) ==
    Cardinality({ k \in 1..Len(sess[t].calls) : sess[t].calls[k] = page })

\* C33: a session that returned has called the page extractor once on the
\* first result page and once on each distinct pagination target of the first
\* page, so 1 + L times for L distinct links; at no moment of a session has a
\* page been extracted twice, and the targets are those of the first page
\* only: a link that appears on a later page alone is never followed.
C33_OneVisitPerDistinctLink ==
    \A t \in Terms :
        /\ \A k \in 1..Len(sess[t].calls) :
              /\ CallsOn(t, sess[t].calls[k]) = 1
              /\ sess[t].calls[k] \in {"first"} \cup FirstPageTargets(t)
              /\ sess[t].calls[k] \notin LaterOnlyTargets(t)
        /\ PastLinks(t) => Range(sess[t].links) = FirstPageTargets(t)
        /\ (sess[t].pc \in {"returned", "fulfilled"} /\ ~sess[t].err) =>
              /\ Len(sess[t].calls) = 1 + LinkCount(t)
              /\ sess[t].calls[1] = "first"
              /\ \A h \in FirstPageTargets(t) : CallsOn(t, h) = 1

C33_Witness ==
    \E t \in Terms :
        /\ sess[t].pc = "fulfilled"
        /\ ~sess[t].err
        /\ Len(Directory(t).hrefs) > LinkCount(t)
        /\ LinkCount(t) = 2
        /\ Len(sess[t].calls) = 3
        /\ LaterOnlyTargets(t) /= {}

====
